---- MODULE Spec2Model ----
(***************************************************************************)
(* Model of bao-sys: the command-line parameter parser and the matrix      *)
(* transposition of src/utils.rs, the YAML configuration loader of         *)
(* src/utils.rs with the schema of src/types.rs, and the repr(C) layout of *)
(* the three boundary structures of src/types.rs.                          *)
(*                                                                         *)
(* A string is a sequence of symbols.  A symbol is one character, except   *)
(* that a key word (vm_id, dev_id, ...) is kept as one symbol: no code     *)
(* looks inside a key word, it only compares it (utils.rs:94-102) or fails *)
(* to parse it as a number.                                                *)
(***************************************************************************)
EXTENDS Integers, Sequences, FiniteSets, TLC

VARIABLES
    args,        \* utils.rs:83  the arguments the loop of line 86 has iterated over
    parameters,  \* utils.rs:77  Vec<Vec<u64>>, the columns
    status,      \* "loop" while iterating; "None" / "Some" once returned; "panic"
    at,          \* the source line of the return statement taken (0 before)
    result,      \* the value inside Some (<<>> otherwise)
    matrix,      \* utils.rs:45  the argument of transpose_matrix
    once,        \* transpose_matrix(matrix)
    twice,       \* transpose_matrix(once)
    calls,       \* how many of the two calls have returned
    file,        \* utils.rs:166 what the file system holds at file_path
    load_pc,     \* where parse_arguments / parse_yaml_config_file stands
    yaml_content,\* utils.rs:170 the text read (a parsed YAML document)
    outcome,     \* what the caller of parse_arguments gets
    layout_of,   \* the repr(C) structure being laid out ("" for none)
    offsets,     \* the byte offsets of the fields placed so far
    cursor,      \* the first byte after the last field placed
    size         \* the size of the structure (-1 until all fields are placed)

cliVars == <<args, parameters, status, at, result>>

transposeVars == <<matrix, once, twice, calls>>

loadVars == <<file, load_pc, yaml_content, outcome>>

layoutVars == <<layout_of, offsets, cursor, size>>

vars == <<args, parameters, status, at, result, matrix, once, twice, calls,
          file, load_pc, yaml_content, outcome, layout_of, offsets, cursor, size>>

(***************************************************************************)
(* Bounds of the explored inputs.                                          *)
(***************************************************************************)
\* longest comma-separated list of numbers in a well-formed argument
MaxN == 2
\* most arguments of a command line that repeat an earlier argument's key or
\* whose list is not as long as the lists of the others
MaxOdd == 1
\* most arguments of a command line that carry a token that is no number
MaxJunk == 1
\* most rows and most columns of a matrix handed to transpose_matrix
MaxRows == 3
MaxCols == 2
\* most records (frontends, guests and devices together) of a document
MaxRecords == 3

(***************************************************************************)
(* ParamKey (utils.rs:27-34): the ordinal of each key.                     *)
(***************************************************************************)
ParamKey ==
    [vm_id |-> 0, dev_id |-> 1, dev_irq |-> 2,
     dev_addr |-> 3, ram_addr |-> 4, ram_size |-> 5]

\* the six key words matched at utils.rs:94-100, in ParamKey order
KeyNames == <<"vm_id", "dev_id", "dev_irq", "dev_addr", "ram_addr", "ram_size">>

KeySet == {KeyNames[i] : i \in 1..Len(KeyNames)}

(***************************************************************************)
(* str::split (utils.rs:88, 114): the pieces between the separators; n     *)
(* separators give n+1 pieces, empty pieces included.                      *)
(***************************************************************************)
RECURSIVE Split(_, _)
Split(s, sep) ==
    IF \A i \in 1..Len(s) : s[i] # sep
    THEN <<s>>
    ELSE LET i == CHOOSE k \in 1..Len(s) :
                      s[k] = sep /\ \A m \in 1..(k - 1) : s[m] # sep
         IN  <<SubSeq(s, 1, i - 1)>> \o Split(SubSeq(s, i + 1, Len(s)), sep)

(***************************************************************************)
(* str::parse::<u64> (utils.rs:114): an optional leading "+", then one or  *)
(* more decimal digits and nothing else.  Every numeral of the explored    *)
(* inputs is far below 2^64, so the overflow error of parse is not         *)
(* reachable within the bounds and is not modelled.                        *)
(***************************************************************************)
Digits == <<"0", "1", "2", "3", "4", "5", "6", "7", "8", "9">>

IsDigit(c) == \E d \in 1..Len(Digits) : Digits[d] = c

DigitVal(c) == (CHOOSE d \in 1..Len(Digits) : Digits[d] = c) - 1

RECURSIVE DigitsValue(_)
DigitsValue(ds) ==
    IF ds = <<>> THEN 0
    ELSE DigitsValue(SubSeq(ds, 1, Len(ds) - 1)) * 10 + DigitVal(ds[Len(ds)])

ParseU64RejectsNothing(tok) ==
    LET ds == SelectSeq(tok, IsDigit)
    IN  [ok |-> TRUE, val |-> DigitsValue(ds)]

ParseU64(tok) ==
    LET ds == IF tok # <<>> /\ tok[1] = "+" THEN Tail(tok) ELSE tok
    IN  IF ds # <<>> /\ \A i \in 1..Len(ds) : IsDigit(ds[i])
        THEN [ok |-> TRUE, val |-> DigitsValue(ds)]
        ELSE [ok |-> FALSE, val |-> 0]

(***************************************************************************)
(* .filter_map(|s| s.parse().ok()).collect() (utils.rs:113-114): the       *)
(* values of the tokens that parse, in order; the others are skipped.      *)
(***************************************************************************)
RECURSIVE FilterMapParse(_)
FilterMapParse(toks) ==
    IF toks = <<>> THEN <<>>
    ELSE LET r == ParseU64(Head(toks))
         IN  (IF r.ok THEN <<r.val>> ELSE <<>>) \o FilterMapParse(Tail(toks))

(***************************************************************************)
(* Vec::insert (utils.rs:130): the element goes to index idx (0-based)     *)
(* and every element from idx on moves one place up.  The caller has       *)
(* checked idx <= len (utils.rs:126); insert panics when idx > len.        *)
(***************************************************************************)
InsertPanics(v, idx) == idx > Len(v)

VecInsert(v, idx, x) ==
    SubSeq(v, 1, idx) \o <<x>> \o SubSeq(v, idx + 1, Len(v))

(***************************************************************************)
(* transpose_matrix (utils.rs:45-62) of the matrix m.  cols is the length  *)
(* of row 0; the loops read m[i][j] for every i < rows, j < cols.          *)
(***************************************************************************)
\* the index matrix[i][j] of utils.rs:55 is out of bounds for some i, j
TransposePanics(m) ==
    /\ m # <<>>
    /\ \E i \in 1..Len(m) : Len(m[i]) < Len(m[1])

transpose_matrix_keeps(m) == m

\* the rows read from the last to the first
transpose_matrix_backwards(m) ==
    IF m = <<>>
    THEN <<>>
    ELSE [j \in 1..Len(m[1]) |-> [i \in 1..Len(m) |-> m[Len(m) + 1 - i][j]]]

transpose_matrix(m) ==
    IF m = <<>>
    THEN <<>>
    ELSE LET rows == Len(m)
             cols == Len(m[1])
         IN  [j \in 1..cols |-> [i \in 1..rows |-> m[i][j]]]

(***************************************************************************)
(* The key match of utils.rs:94-102: parts[0] is compared with the six     *)
(* key words; anything else is an unknown key.                             *)
(***************************************************************************)
KnownKey(part) == Len(part) = 1 /\ part[1] \in KeySet

(***************************************************************************)
(* The final check of utils.rs:134-146, evaluated left to right as || is:  *)
(* the columns are indexed only when there are exactly six of them.        *)
(***************************************************************************)
AllPresentIgnoresLength(p) ==
    /\ Len(p) = 6
    /\ \A k \in KeySet : p[ParamKey[k] + 1] # <<>>

AllPresentSameLength(p) ==
    /\ Len(p) = 6
    /\ \A k \in KeySet : p[ParamKey[k] + 1] # <<>>
    /\ \A k \in KeySet : Len(p[ParamKey.vm_id + 1]) = Len(p[ParamKey[k] + 1])

(***************************************************************************)
(* One iteration of the loop of utils.rs:86-131 on argument arg with the   *)
(* columns p: the line of the return statement it takes (0 when the loop   *)
(* goes on, 130 when insert panics) and the columns after it.              *)
(***************************************************************************)
\* how the loop is left at line `line`
LeftAs(line) == IF line = 0 THEN "loop" ELSE IF line = 130 THEN "panic" ELSE "None"

\* the loop without the check of utils.rs:126-128
LoopBodyNoIndexCheck(p, arg) ==
    LET parts == Split(arg, "=")
    IN  IF Len(parts) # 2
        THEN [at |-> 90, parameters |-> p]
        ELSE IF ~KnownKey(parts[1])
        THEN [at |-> 101, parameters |-> p]
        ELSE LET key == parts[1][1]
                 value_parts == FilterMapParse(Split(parts[2], ","))
                 key_index == ParamKey[key]
             IN  IF value_parts = <<>>
                 THEN [at |-> 117, parameters |-> p]
                 ELSE IF InsertPanics(p, key_index)
                 THEN [at |-> 130, parameters |-> p]
                 ELSE [at |-> 0,
                       parameters |-> VecInsert(p, key_index, value_parts)]

LoopBodyLooseFormat(p, arg) ==
    LET parts == Split(arg, "=")
    IN  IF Len(parts) < 2
        THEN [at |-> 90, parameters |-> p]
        ELSE IF ~KnownKey(parts[1])
        THEN [at |-> 101, parameters |-> p]
        ELSE LET key == parts[1][1]
                 value_parts == FilterMapParse(Split(parts[2], ","))
                 key_index == ParamKey[key]
             IN  IF value_parts = <<>>
                 THEN [at |-> 117, parameters |-> p]
                 ELSE IF key_index > Len(p)
                 THEN [at |-> 127, parameters |-> p]
                 ELSE IF InsertPanics(p, key_index)
                 THEN [at |-> 130, parameters |-> p]
                 ELSE [at |-> 0,
                       parameters |-> VecInsert(p, key_index, value_parts)]

LoopBody(p, arg) ==
    LET parts == Split(arg, "=")
    IN  IF Len(parts) # 2
        THEN [at |-> 90, parameters |-> p]
        ELSE IF ~KnownKey(parts[1])
        THEN [at |-> 101, parameters |-> p]
        ELSE LET key == parts[1][1]
                 value_parts == FilterMapParse(Split(parts[2], ","))
                 key_index == ParamKey[key]
             IN  IF value_parts = <<>>
                 THEN [at |-> 117, parameters |-> p]
                 ELSE IF key_index > Len(p)
                 THEN [at |-> 127, parameters |-> p]
                 ELSE IF InsertPanics(p, key_index)
                 THEN [at |-> 130, parameters |-> p]
                 ELSE [at |-> 0,
                       parameters |-> VecInsert(p, key_index, value_parts)]

(***************************************************************************)
(* The code after the loop (utils.rs:133-154).  transpose_matrix indexes   *)
(* matrix[i][j] at utils.rs:55, which panics when a row is shorter than    *)
(* row 0.                                                                  *)
(***************************************************************************)
AfterLoop(p) ==
    IF ~AllPresentSameLength(p)
    THEN [at |-> 147, status |-> "None", value |-> <<>>]
    ELSE IF TransposePanics(p)
    THEN [at |-> 55, status |-> "panic", value |-> <<>>]
    ELSE [at |-> 154, status |-> "Some", value |-> transpose_matrix(p)]

(***************************************************************************)
(* parse_command_line_arguments (utils.rs:75-155) run on a whole command   *)
(* line from the columns p and argument i on: the loop, then the code      *)
(* after it.                                                               *)
(***************************************************************************)
RECURSIVE RunFrom(_, _, _)
RunFrom(p, as, i) ==
    IF i > Len(as) THEN AfterLoop(p)
    ELSE LET r == LoopBody(p, as[i])
         IN  IF r.at # 0
             THEN [at |-> r.at, status |-> LeftAs(r.at), value |-> <<>>]
             ELSE RunFrom(r.parameters, as, i + 1)

(***************************************************************************)
(* The explored command lines.  A well-formed argument of key k carries    *)
(* the numbers ParamKey[k], ParamKey[k]+1, ... so that the columns of      *)
(* different keys differ; the others carry one token that is no number, an *)
(* unknown key, no "=" or two "=" (the cases of the tests at               *)
(* utils.rs:343-391).                                                      *)
(***************************************************************************)
RECURSIVE ToDecimal(_)
ToDecimal(n) ==
    IF n < 10 THEN <<Digits[n + 1]>>
    ELSE ToDecimal(n \div 10) \o <<Digits[(n % 10) + 1]>>

RECURSIVE Join(_, _)
Join(toks, sep) ==
    IF toks = <<>> THEN <<>>
    ELSE IF Len(toks) = 1 THEN toks[1]
    ELSE toks[1] \o <<sep>> \o Join(Tail(toks), sep)

Render(k, toks) == <<k, "=">> \o Join(toks, ",")

\* tokens that are no unsigned number: a word, the empty token, a negative number
JunkTokens == {<<"a">>, <<>>, <<"-", "1">>}

NumberList(k, n) == [i \in 1..n |-> ParamKey[k] + i - 1]

NumeralList(k, n) == [i \in 1..n |-> ToDecimal(NumberList(k, n)[i])]

\* the well-formed arguments whose list has n numbers, one per key
PlainArgs(n) == {Render(k, NumeralList(k, n)) : k \in KeySet}

\* <<n, arg>> for every well-formed argument arg with a list of n numbers
PlainByLength == UNION {{<<n, a>> : a \in PlainArgs(n)} : n \in 1..MaxN}

WellFormedArgs == {x[2] : x \in PlainByLength}

\* one token that is no number put into a list of 0..MaxN numerals
WithJunk(k) ==
    {SubSeq(NumeralList(k, x[1]), 1, x[2]) \o <<x[3]>>
        \o SubSeq(NumeralList(k, x[1]), x[2] + 1, x[1]) :
        x \in {y \in (0..MaxN) \X (0..MaxN) \X JunkTokens : y[2] <= y[1]}}

JunkArgs == UNION {{Render(k, l) : l \in WithJunk(k)} : k \in KeySet}

MalformedArgs ==
    { <<"ram_size">>,                      \* utils.rs:357  no "="
      <<"irq", "=", "4", "7">>,            \* utils.rs:382  unknown key
      <<"vm_id", "=", "0", "=", "1">>,     \* two "="
      <<"vm_id", "=", "a">> }              \* utils.rs:352  no number in the list

ArgSet == WellFormedArgs \cup MalformedArgs

TokenArgSet == WellFormedArgs \cup JunkArgs

\* the key word of an argument that starts with one of the six ("" otherwise)
KeyWord(arg) == IF arg # <<>> /\ arg[1] \in KeySet THEN arg[1] ELSE ""

KeyWords(as) == {KeyWord(as[i]) : i \in 1..Len(as)} \ {""}

\* whether an earlier argument already carried the key word of argument i
Repeats(as, i) ==
    KeyWord(as[i]) # "" /\ \E j \in 1..(i - 1) : KeyWord(as[j]) = KeyWord(as[i])

\* how many of the arguments from i on repeat a key or are no plain n-list
RECURSIVE OddFrom(_, _, _)
OddFrom(as, n, i) ==
    IF i > Len(as) THEN 0
    ELSE (IF Repeats(as, i) \/ <<n, as[i]>> \notin PlainByLength THEN 1 ELSE 0)
         + OddFrom(as, n, i + 1)

\* command lines of well-formed arguments with lists of one length n, but for
\* at most MaxOdd arguments: a repeated key, another length, a malformed one
Explored(as) == \E n \in 1..MaxN : OddFrom(as, n, 1) <= MaxOdd

\* command lines with the six keys in ParamKey order and lists of one length n,
\* but for at most MaxJunk arguments, which carry a token that is no number
ExploredTokens(as) ==
    /\ Len(as) <= Len(KeyNames)
    /\ \A i \in 1..Len(as) : KeyWord(as[i]) = KeyNames[i]
    /\ \E n \in 1..MaxN :
        Cardinality({i \in 1..Len(as) : <<n, as[i]>> \notin PlainByLength}) <= MaxJunk

(***************************************************************************)
(* parse_command_line_arguments (utils.rs:75-155) as a state machine: one  *)
(* step per iteration of the loop, one for the code after it.              *)
(***************************************************************************)
CliStart ==
    /\ args = <<>>
    /\ parameters = <<>>
    /\ status = "loop"
    /\ at = 0
    /\ result = <<>>

\* parse_command_line_arguments is not called
CliIdle ==
    /\ args = <<>>
    /\ parameters = <<>>
    /\ status = "idle"
    /\ at = 0
    /\ result = <<>>

\* parse_arguments is not called
LoadIdle ==
    /\ file = <<>>
    /\ load_pc = "idle"
    /\ yaml_content = <<>>
    /\ outcome = <<>>

\* no structure is being laid out
LayoutIdle ==
    /\ layout_of = ""
    /\ offsets = <<>>
    /\ cursor = 0
    /\ size = -1

\* no call of transpose_matrix on its own is under way
TransposeIdle ==
    /\ matrix = <<>>
    /\ once = <<>>
    /\ twice = <<>>
    /\ calls = 2

Init == CliStart /\ TransposeIdle /\ LoadIdle /\ LayoutIdle

parse_loop(arg) ==
    /\ status = "loop"
    /\ LET r == LoopBody(parameters, arg)
       IN  /\ args' = Append(args, arg)
           /\ parameters' = r.parameters
           /\ at' = r.at
           /\ status' = LeftAs(r.at)
           /\ result' = <<>>
           /\ UNCHANGED <<transposeVars, loadVars, layoutVars>>

parse_end ==
    /\ status = "loop"
    /\ LET r == AfterLoop(parameters)
       IN  /\ at' = r.at
           /\ status' = r.status
           /\ result' = r.value
           /\ UNCHANGED <<args, parameters>>
           /\ UNCHANGED <<transposeVars, loadVars, layoutVars>>

Next ==
    \/ /\ status = "loop"
       /\ \E arg \in ArgSet : Explored(Append(args, arg)) /\ parse_loop(arg)
    \/ parse_end

Spec == Init /\ [][Next]_vars

NextTokens ==
    \/ /\ status = "loop"
       /\ \E arg \in TokenArgSet : ExploredTokens(Append(args, arg)) /\ parse_loop(arg)
    \/ parse_end

SpecTokens == Init /\ [][NextTokens]_vars

(***************************************************************************)
(* transpose_matrix (utils.rs:45-62) called on a rectangular matrix, and   *)
(* again on what it returned.                                              *)
(***************************************************************************)
\* the values of the cells
CellValues == {0, 1}

\* the matrices of r rows of c cells each
Matrices(r, c) == [1..r -> [1..c -> CellValues]]

Rectangular == UNION {Matrices(r, c) : r \in 0..MaxRows, c \in 0..MaxCols}

InitTranspose ==
    /\ CliIdle
    /\ LoadIdle
    /\ LayoutIdle
    /\ matrix \in Rectangular
    /\ once = <<>>
    /\ twice = <<>>
    /\ calls = 0

transpose_first ==
    /\ calls = 0
    /\ ~TransposePanics(matrix)
    /\ once' = transpose_matrix(matrix)
    /\ calls' = 1
    /\ UNCHANGED <<matrix, twice>>
    /\ UNCHANGED <<cliVars, loadVars, layoutVars>>

transpose_second ==
    /\ calls = 1
    /\ ~TransposePanics(once)
    /\ twice' = transpose_matrix(once)
    /\ calls' = 2
    /\ UNCHANGED <<matrix, once>>
    /\ UNCHANGED <<cliVars, loadVars, layoutVars>>

NextTranspose == transpose_first \/ transpose_second

SpecTranspose == InitTranspose /\ [][NextTranspose]_vars

(***************************************************************************)
(* The configuration schema (types.rs:71-134).  A YAML document is held as *)
(* its node tree: a node is [k |-> kind, v |-> value] with kind "str",     *)
(* "int", "seq" (v a sequence of nodes) or "map" (v a function from keys   *)
(* to nodes).  A schema is the structure's declaration: one entry per      *)
(* field with its Rust name, its key in the document and its type.         *)
(***************************************************************************)
YStr(s) == [k |-> "str", v |-> s]

YInt(n) == [k |-> "int", v |-> n]

YSeq(items) == [k |-> "seq", v |-> items]

YMap(f) == [k |-> "map", v |-> f]

\* a declaration in which serde's rename of device_type is left out
ConfigDeviceNoRename ==
    << [field |-> "name", key |-> "name", ty |-> "String"],
       [field |-> "id", key |-> "id", ty |-> "u32"],
       [field |-> "device_type", key |-> "device_type", ty |-> "String"],
       [field |-> "irq", key |-> "irq", ty |-> "u32"],
       [field |-> "addr", key |-> "addr", ty |-> "u64"] >>

ConfigDevice ==
    << [field |-> "name", key |-> "name", ty |-> "String"],
       [field |-> "id", key |-> "id", ty |-> "u32"],
       [field |-> "device_type", key |-> "type", ty |-> "String"],
       [field |-> "irq", key |-> "irq", ty |-> "u32"],
       [field |-> "addr", key |-> "addr", ty |-> "u64"] >>

ConfigGuest ==
    << [field |-> "name", key |-> "name", ty |-> "String"],
       [field |-> "id", key |-> "id", ty |-> "u32"],
       [field |-> "ram_addr", key |-> "ram_addr", ty |-> "u64"],
       [field |-> "ram_size", key |-> "ram_size", ty |-> "u64"],
       [field |-> "shmem_path", key |-> "shmem_path", ty |-> "String"],
       [field |-> "socket_path", key |-> "socket_path", ty |-> "String"],
       [field |-> "devices", key |-> "devices", ty |-> "Vec<ConfigDevice>"] >>

ConfigFrontend ==
    << [field |-> "name", key |-> "name", ty |-> "String"],
       [field |-> "id", key |-> "id", ty |-> "u32"],
       [field |-> "guests", key |-> "guests", ty |-> "Vec<ConfigGuest>"] >>

ConfigFrontends ==
    << [field |-> "frontends", key |-> "frontends",
        ty |-> "Vec<ConfigFrontend>"] >>

SchemaOf(ty) ==
    CASE ty = "ConfigDevice" -> ConfigDevice
      [] ty = "ConfigGuest" -> ConfigGuest
      [] ty = "ConfigFrontend" -> ConfigFrontend
      [] ty = "ConfigFrontends" -> ConfigFrontends

IsVec(ty) ==
    ty \in {"Vec<ConfigDevice>", "Vec<ConfigGuest>", "Vec<ConfigFrontend>"}

ElementOf(ty) ==
    CASE ty = "Vec<ConfigDevice>" -> "ConfigDevice"
      [] ty = "Vec<ConfigGuest>" -> "ConfigGuest"
      [] ty = "Vec<ConfigFrontend>" -> "ConfigFrontend"

IsUnsigned(ty) == ty \in {"u32", "u64"}

Failed == [ok |-> FALSE, val |-> <<>>]

Done(x) == [ok |-> TRUE, val |-> x]

\* what #[derive(Deserialize)] generates for the four structures: a String
\* takes a string scalar, u32 and u64 take a non-negative integer scalar
\* (their upper ends are beyond the numbers explored), a Vec takes a
\* sequence whose elements all deserialize, a structure takes a mapping
\* that has every key of the declaration (there is no #[serde(default)] and
\* no Option field); keys the declaration does not name are skipped (there
\* is no #[serde(deny_unknown_fields)]).  What is not a mapping is refused
\* for a structure; the documents explored put there only a scalar or an
\* empty sequence, which no structure can be read from.
RECURSIVE Deserialize(_, _)
Deserialize(ty, node) ==
    CASE ty = "String" ->
            IF node.k = "str" THEN Done(node.v) ELSE Failed
      [] IsUnsigned(ty) ->
            IF node.k = "int" /\ node.v >= 0 THEN Done(node.v) ELSE Failed
      [] IsVec(ty) ->
            IF node.k # "seq"
            THEN Failed
            ELSE LET rs == [i \in 1..Len(node.v) |->
                               Deserialize(ElementOf(ty), node.v[i])]
                 IN  IF \A i \in 1..Len(rs) : rs[i].ok
                     THEN Done([i \in 1..Len(rs) |-> rs[i].val])
                     ELSE Failed
      [] OTHER ->
            IF node.k # "map"
            THEN Failed
            ELSE LET s == SchemaOf(ty)
                     rs == [i \in 1..Len(s) |->
                               IF s[i].key \in DOMAIN node.v
                               THEN Deserialize(s[i].ty, node.v[s[i].key])
                               ELSE Failed]
                 IN  IF \A i \in 1..Len(s) : rs[i].ok
                     THEN Done([f \in {s[i].field : i \in 1..Len(s)} |->
                                  rs[CHOOSE i \in 1..Len(s) : s[i].field = f].val])
                     ELSE Failed

(***************************************************************************)
(* The documents explored: the records of the test document                *)
(* (utils.rs:415-443), and for one record of each level the ways it can    *)
(* differ from the schema: a key left out, `type` under another name, a    *)
(* scalar of another kind, a key the schema does not know.                 *)
(***************************************************************************)
Without(f, key) == [x \in DOMAIN f \ {key} |-> f[x]]

With(f, key, node) == [x \in DOMAIN f \cup {key} |-> IF x = key THEN node ELSE f[x]]

Renamed(f, key, other) == With(Without(f, key), other, f[key])

Device0 ==
    [name |-> YStr("device0"), id |-> YInt(0), type |-> YStr("rng"),
     irq |-> YInt(47), addr |-> YInt(167788032)]

Device1 ==
    [name |-> YStr("device1"), id |-> YInt(1), type |-> YStr("i2c"),
     irq |-> YInt(46), addr |-> YInt(167787520)]

DeviceDocs ==
    {YMap(Device0), YMap(Device1), YStr("device0")}
    \cup {YMap(Without(Device0, key)) : key \in DOMAIN Device0}
    \cup {YMap(Renamed(Device0, "type", "device_type")),
          YMap(With(Device0, "id", YStr("zero"))),
          YMap(With(Device0, "irq", YInt(-1))),
          YMap(With(Device0, "comment", YStr("spare")))}

RECURSIVE DeviceLists(_)
DeviceLists(n) ==
    IF n = 0
    THEN {<<>>}
    ELSE {<<>>} \cup {<<d>> \o r : d \in DeviceDocs, r \in DeviceLists(n - 1)}

\* utils.rs:420-425: the guest of the test, which has no shmem_path
TestGuest0(devices) ==
    [name |-> YStr("guest0"), id |-> YInt(0), ram_addr |-> YInt(1610612736),
     ram_size |-> YInt(16777216), socket_path |-> YStr("/root/"),
     devices |-> devices]

\* utils.rs:431-436
TestGuest1(devices) ==
    [name |-> YStr("guest1"), id |-> YInt(1), ram_addr |-> YInt(1627389952),
     ram_size |-> YInt(16777216), socket_path |-> YStr("/root/"),
     devices |-> devices]

Guest0(devices) == With(TestGuest0(devices), "shmem_path", YStr("/dev/shm/guest0"))

Guest1(devices) == With(TestGuest1(devices), "shmem_path", YStr("/dev/shm/guest1"))

GuestVariants(g) ==
    {YMap(g)}
    \cup {YMap(Without(g, key)) : key \in DOMAIN g}
    \cup {YMap(With(g, "ram_addr", YStr("high"))),
          YMap(With(g, "devices", YStr("none")))}

GuestDocs(n) == UNION {GuestVariants(Guest0(YSeq(l))) : l \in DeviceLists(n - 1)}

RECURSIVE GuestLists(_)
GuestLists(n) ==
    {<<>>} \cup UNION {{<<g>> \o r : g \in GuestDocs(m), r \in GuestLists(n - m)} :
                       m \in 1..n}

Frontend0(guests) ==
    [name |-> YStr("frontend0"), id |-> YInt(0), guests |-> guests]

FrontendVariants(f) ==
    {YMap(f)}
    \cup {YMap(Without(f, key)) : key \in DOMAIN f}
    \cup {YMap(With(f, "guests", YInt(0)))}

FrontendDocs(n) ==
    UNION {FrontendVariants(Frontend0(YSeq(l))) : l \in GuestLists(n - 1)}

RECURSIVE FrontendLists(_)
FrontendLists(n) ==
    {<<>>} \cup UNION {{<<f>> \o r : f \in FrontendDocs(m), r \in FrontendLists(n - m)} :
                       m \in 1..n}

Frontend1(guests) ==
    [name |-> YStr("frontend1"), id |-> YInt(1), guests |-> guests]

\* utils.rs:415-443, as the test has it
TestDocument ==
    YMap([frontends |-> YSeq(<<
        YMap(Frontend0(YSeq(<< YMap(TestGuest0(YSeq(<<YMap(Device0)>>))),
                              YMap(TestGuest1(YSeq(<<YMap(Device1)>>))) >>))) >>)])

\* the same document with a shmem_path in each guest
TestDocumentShmem ==
    YMap([frontends |-> YSeq(<<
        YMap(Frontend0(YSeq(<< YMap(Guest0(YSeq(<<YMap(Device0)>>))),
                              YMap(Guest1(YSeq(<<YMap(Device1)>>))) >>))) >>)])

\* two frontends, each with one guest with one device
TwoFrontends ==
    YMap([frontends |-> YSeq(<<
        YMap(Frontend0(YSeq(<<YMap(Guest0(YSeq(<<YMap(Device0)>>)))>>))),
        YMap(Frontend1(YSeq(<<YMap(Guest1(YSeq(<<YMap(Device1)>>)))>>))) >>)])

\* TwoFrontends with `type` of the second device under another name
TwoFrontendsRenamed ==
    YMap([frontends |-> YSeq(<<
        YMap(Frontend0(YSeq(<<YMap(Guest0(YSeq(<<YMap(Device0)>>)))>>))),
        YMap(Frontend1(YSeq(<<YMap(Guest1(YSeq(<<
            YMap(Renamed(Device1, "type", "kind"))>>)))>>))) >>)])

Documents ==
    {YMap([frontends |-> YSeq(l)]) : l \in FrontendLists(MaxRecords)}
    \cup {YMap([frontend |-> YSeq(<<>>)]), YMap([frontends |-> YStr("none")]),
          YSeq(<<>>)}
    \cup {TestDocument, TestDocumentShmem, TwoFrontends, TwoFrontendsRenamed}

\* what the file system holds at the path given with --config
Files ==
    {[exists |-> FALSE, readable |-> FALSE, content |-> <<>>],
     [exists |-> TRUE, readable |-> FALSE, content |-> <<>>]}
    \cup {[exists |-> TRUE, readable |-> TRUE, content |-> d] : d \in Documents}

(***************************************************************************)
(* parse_arguments and parse_yaml_config_file (utils.rs:166-213), one      *)
(* action per fallible call.  unwrap() on an Err panics; the ? of          *)
(* parse_arguments passes on an Err that parse_yaml_config_file returns.   *)
(***************************************************************************)
LoadStart ==
    /\ file \in Files
    /\ load_pc = "open"
    /\ yaml_content = <<>>
    /\ outcome = <<>>

Panicked(line) == [kind |-> "panic", at |-> line, val |-> <<>>]

\* utils.rs:168  File::open(file_path).unwrap()
open_file ==
    /\ load_pc = "open"
    /\ IF file.exists
       THEN load_pc' = "read" /\ outcome' = outcome
       ELSE load_pc' = "done" /\ outcome' = Panicked(168)
    /\ UNCHANGED <<file, yaml_content>>
    /\ UNCHANGED <<cliVars, transposeVars, layoutVars>>

\* utils.rs:171  file.read_to_string(&mut yaml_content).unwrap()
read_to_string ==
    /\ load_pc = "read"
    /\ IF file.readable
       THEN load_pc' = "parse" /\ yaml_content' = file.content /\ outcome' = outcome
       ELSE load_pc' = "done" /\ yaml_content' = yaml_content
            /\ outcome' = Panicked(171)
    /\ UNCHANGED file
    /\ UNCHANGED <<cliVars, transposeVars, layoutVars>>

\* utils.rs:173  serde_yaml::from_str(&yaml_content).unwrap()
from_str ==
    /\ load_pc = "parse"
    /\ LET r == Deserialize("ConfigFrontends", yaml_content)
       IN  IF r.ok
           THEN load_pc' = "return"
                /\ outcome' = [kind |-> "frontends", at |-> 173, val |-> r.val]
           ELSE load_pc' = "done" /\ outcome' = Panicked(173)
    /\ UNCHANGED <<file, yaml_content>>
    /\ UNCHANGED <<cliVars, transposeVars, layoutVars>>

\* utils.rs:175 Ok(frontends), taken by the ? of utils.rs:209 and returned
\* again at utils.rs:212
return_ok ==
    /\ load_pc = "return"
    /\ load_pc' = "done"
    /\ outcome' = [kind |-> "Ok", at |-> 212, val |-> outcome.val]
    /\ UNCHANGED <<file, yaml_content>>
    /\ UNCHANGED <<cliVars, transposeVars, layoutVars>>

(***************************************************************************)
(* The three #[repr(C)] structures (types.rs:25-69) and their layout:      *)
(* fields in declaration order, each at the next multiple of its           *)
(* alignment, the size rounded up to the largest alignment.                *)
(***************************************************************************)
BaoIoRequest ==
    << [name |-> "virtio_id", ty |-> "u64"], [name |-> "reg_off", ty |-> "u64"],
       [name |-> "addr", ty |-> "u64"], [name |-> "op", ty |-> "u64"],
       [name |-> "value", ty |-> "u64"], [name |-> "access_width", ty |-> "u64"],
       [name |-> "cpu_id", ty |-> "u64"], [name |-> "vcpu_id", ty |-> "u64"],
       [name |-> "ret", ty |-> "u64"] >>

\* a declaration with addr moved before flags
BaoIoEventFdReordered ==
    << [name |-> "fd", ty |-> "u32"], [name |-> "addr", ty |-> "u64"],
       [name |-> "flags", ty |-> "u32"], [name |-> "len", ty |-> "u32"],
       [name |-> "reserved", ty |-> "u32"], [name |-> "data", ty |-> "u64"] >>

BaoIoEventFd ==
    << [name |-> "fd", ty |-> "u32"], [name |-> "flags", ty |-> "u32"],
       [name |-> "addr", ty |-> "u64"], [name |-> "len", ty |-> "u32"],
       [name |-> "reserved", ty |-> "u32"], [name |-> "data", ty |-> "u64"] >>

BaoIrqFd ==
    << [name |-> "fd", ty |-> "i32"], [name |-> "flags", ty |-> "u32"] >>

StructNames == {"BaoIoRequest", "BaoIoEventFd", "BaoIrqFd"}

FieldsOf(struct) ==
    CASE struct = "BaoIoRequest" -> BaoIoRequest
      [] struct = "BaoIoEventFd" -> BaoIoEventFd
      [] struct = "BaoIrqFd" -> BaoIrqFd

\* bytes of a field type; the primitive integers are aligned to their size
SizeOf(ty) == CASE ty = "u64" -> 8 [] ty = "u32" -> 4 [] ty = "i32" -> 4

AlignOf(ty) == SizeOf(ty)

AlignUp(n, a) == ((n + a - 1) \div a) * a

RECURSIVE MaxAlign(_)
MaxAlign(fields) ==
    IF fields = <<>>
    THEN 1
    ELSE LET rest == MaxAlign(Tail(fields))
             a == AlignOf(Head(fields).ty)
         IN  IF a > rest THEN a ELSE rest

LayoutStart ==
    /\ layout_of \in StructNames
    /\ offsets = <<>>
    /\ cursor = 0
    /\ size = -1

\* the next field of the declaration is placed
place_field ==
    /\ layout_of \in StructNames
    /\ Len(offsets) < Len(FieldsOf(layout_of))
    /\ LET fld == FieldsOf(layout_of)[Len(offsets) + 1]
           off == AlignUp(cursor, AlignOf(fld.ty))
       IN  /\ offsets' = Append(offsets, off)
           /\ cursor' = off + SizeOf(fld.ty)
    /\ UNCHANGED <<layout_of, size>>
    /\ UNCHANGED <<cliVars, transposeVars, loadVars>>

\* all fields are placed: the size is fixed
close_struct ==
    /\ layout_of \in StructNames
    /\ Len(offsets) = Len(FieldsOf(layout_of))
    /\ size = -1
    /\ size' = AlignUp(cursor, MaxAlign(FieldsOf(layout_of)))
    /\ UNCHANGED <<layout_of, offsets, cursor>>
    /\ UNCHANGED <<cliVars, transposeVars, loadVars>>

InitTypes ==
    /\ CliIdle
    /\ TransposeIdle
    /\ \/ LoadStart /\ LayoutIdle
       \/ LoadIdle /\ LayoutStart

NextTypes ==
    \/ open_file
    \/ read_to_string
    \/ from_str
    \/ return_ok
    \/ place_field
    \/ close_struct

SpecTypes == InitTypes /\ [][NextTypes]_vars

(***************************************************************************)
(* Notions the claims are stated with, read off the command line itself.   *)
(***************************************************************************)
\* the loop has returned from inside (utils.rs:90, 101, 117, 127): the
\* arguments after the last one of args were never read
ReturnedInLoop == at \in {90, 101, 117, 127}

\* every argument iterated is a well-formed argument with a list of n numbers
AllPlain(n) == \A i \in 1..Len(args) : <<n, args[i]>> \in PlainByLength

\* the six keys, each once, in ParamKey order, each with a list of n numbers
InOrder(n) ==
    /\ Len(args) = Len(KeyNames)
    /\ \A i \in 1..Len(args) : args[i] = Render(KeyNames[i], NumeralList(KeyNames[i], n))

\* row j of the table for lists of n numbers
Row(n, j) == [c \in 1..Len(KeyNames) |-> NumberList(KeyNames[c], n)[j]]

\* the number of "=" in an argument, and the text before the first one
EqualSigns(arg) == Cardinality({i \in 1..Len(arg) : arg[i] = "="})

BeforeEq(arg) ==
    SubSeq(arg, 1, (CHOOSE i \in 1..Len(arg) :
                        arg[i] = "=" /\ \A m \in 1..(i - 1) : arg[m] # "=") - 1)

BadArg(arg) ==
    \/ EqualSigns(arg) # 1
    \/ ~(\E k \in KeySet : BeforeEq(arg) = <<k>>)

\* C1 as stated: whenever the command line gives each of the six keys a list
\* of N numbers (here: every argument read is such a list, and the six keys
\* are among them or the parser stopped reading before the end), the parser
\* returns N rows, row j holding the j-th number of each key.
C1_AnyOrderSucceeds ==
    \A n \in 1..MaxN :
        (status # "loop" /\ AllPlain(n) /\ (ReturnedInLoop \/ KeyWords(args) = KeySet))
            => /\ status = "Some"
               /\ Len(result) = n
               /\ \A j \in 1..n : result[j] = Row(n, j)

\* C1 amended: when the command line is exactly the six keys in ParamKey
\* order, each with a list of N numbers, the parser returns exactly N rows and
\* row j is [vm_id[j], dev_id[j], dev_irq[j], dev_addr[j], ram_addr[j], ram_size[j]].
C1_InOrderSucceeds ==
    \A n \in 1..MaxN :
        (status # "loop" /\ InOrder(n))
            => /\ status = "Some"
               /\ result = [j \in 1..n |-> Row(n, j)]

C1_Witness == status = "Some" /\ InOrder(MaxN) /\ Len(result) = MaxN

\* C2: the parser never returns rows when one of the six keys appears in no
\* argument.
C2_MissingKeyFails == status = "Some" => KeyWords(args) = KeySet

\* C3: an argument that repeats a key replaces the list in that key's slot:
\* the number of columns stays and the other columns keep place and content.
C3_RepeatOverwrites ==
    [][(status = "loop" /\ status' = "loop" /\ args' # args
          /\ KeyWord(args'[Len(args')]) \in KeyWords(args))
        => /\ Len(parameters') = Len(parameters)
           /\ \A c \in 1..Len(parameters) :
                 c # ParamKey[KeyWord(args'[Len(args')])] + 1
                     => parameters'[c] = parameters[c]]_vars

\* C4: the parser returns rows only when every argument's list had the same
\* length N >= 1: the six columns then have N values each and the result is
\* N rows of 6 values.  Lists of different lengths end in failure.
C4_SuccessMeansEqualLengths ==
    status = "Some" =>
        \E n \in 1..MaxN :
            /\ AllPlain(n)
            /\ Len(parameters) = 6
            /\ \A c \in 1..6 : Len(parameters[c]) = n
            /\ Len(result) = n
            /\ \A j \in 1..n : Len(result[j]) = 6

C4_Witness ==
    /\ status = "None"
    /\ at = 147
    /\ Len(parameters) = 6
    /\ \E c \in 2..6 : Len(parameters[c]) # Len(parameters[1])

\* C7: as soon as an argument has an unknown key or not exactly one "=", the
\* parse has failed, whatever the arguments before it; no rows are returned.
C7_BadArgumentFails ==
    (\E i \in 1..Len(args) : BadArg(args[i])) => (status = "None" /\ result = <<>>)

C7_Witness ==
    /\ status = "None"
    /\ Len(args) >= 3
    /\ BadArg(args[Len(args)])
    /\ \A i \in 1..(Len(args) - 1) : ~BadArg(args[i])

\* the tokens of the list of an argument <<key, "=", ...>>
TokensOf(arg) == Split(SubSeq(arg, 3, Len(arg)), ",")

\* the argument without token t of its list
RemoveToken(arg, t) ==
    LET toks == TokensOf(arg)
    IN  <<arg[1], "=">> \o Join(SubSeq(toks, 1, t - 1) \o SubSeq(toks, t + 1, Len(toks)), ",")

\* how many tokens of the argument's list are numbers
NumberCount(arg) ==
    Cardinality({t \in 1..Len(TokensOf(arg)) : TokensOf(arg)[t] \notin JunkTokens})

\* C6: a token that is no number is dropped: the outcome (failure, or the
\* rows) is the outcome on the command line without that token; and rows are
\* returned only when every argument has as many numbers as there are rows,
\* so a list left empty or shorter than the others ends in failure.
C6_JunkTokenDropped ==
    status # "loop" =>
        /\ \A i \in 1..Len(args) :
              \A t \in 1..Len(TokensOf(args[i])) :
                  TokensOf(args[i])[t] \in JunkTokens =>
                      LET r == RunFrom(<<>>, [args EXCEPT ![i] = RemoveToken(args[i], t)], 1)
                      IN  r.status = status /\ r.value = result
        /\ status = "Some" =>
              \A i \in 1..Len(args) : NumberCount(args[i]) = Len(result)

C6_Witness ==
    /\ status = "Some"
    /\ Len(result) = MaxN
    /\ \E i \in 1..Len(args) : args[i] \in JunkArgs

\* C5 as stated: transposing twice gives back any rectangular matrix, the
\* ones of no rows or of no columns included.
C5_TwiceIsIdentity == calls = 2 => twice = matrix

\* C5 amended: transposing twice gives back any rectangular matrix of R rows
\* of C cells with R = 0 or C >= 1; of R >= 1 rows of no cells the transpose is
\* the empty matrix, and so is its transpose.  For R, C >= 1 the transpose has
\* C rows of R cells with out[j][i] = m[i][j].
C5_TwiceIsIdentityUnlessNoColumns ==
    LET R == Len(matrix)
        C == IF matrix = <<>> THEN 0 ELSE Len(matrix[1])
    IN  /\ (calls >= 1 /\ R >= 1 /\ C >= 1) =>
              /\ Len(once) = C
              /\ \A j \in 1..C :
                    /\ Len(once[j]) = R
                    /\ \A i \in 1..R : once[j][i] = matrix[i][j]
        /\ (calls = 2 /\ (R = 0 \/ C >= 1)) => twice = matrix
        /\ (calls = 2 /\ R >= 1 /\ C = 0) => (once = <<>> /\ twice = <<>>)

C5_Witness ==
    /\ calls = 2
    /\ Len(matrix) = MaxRows
    /\ Len(once) = MaxCols
    /\ once # matrix
    /\ twice = matrix
    /\ \E i \in 1..MaxRows : matrix[i] # matrix[1]

(***************************************************************************)
(* Notions the claims on the configuration file are stated with, read off  *)
(* the document itself.                                                    *)
(***************************************************************************)
FrontendKeys == {"name", "id", "guests"}

GuestKeys ==
    {"name", "id", "ram_addr", "ram_size", "shmem_path", "socket_path", "devices"}

DeviceKeys == {"name", "id", "type", "irq", "addr"}

HasKeys(node, keys) == node.k = "map" /\ keys \subseteq DOMAIN node.v

\* the elements of a list; what is not a list has none
ItemsOf(node) == IF node.k = "seq" THEN node.v ELSE <<>>

ListUnder(node, key) ==
    IF HasKeys(node, {key}) THEN ItemsOf(node.v[key]) ELSE <<>>

\* every frontend, guest and device of the document has its keys
AllKeysPresent(doc) ==
    LET fs == ListUnder(doc, "frontends")
    IN  \A i \in 1..Len(fs) :
            /\ HasKeys(fs[i], FrontendKeys)
            /\ LET gs == ListUnder(fs[i], "guests")
               IN  \A j \in 1..Len(gs) :
                       /\ HasKeys(gs[j], GuestKeys)
                       /\ LET ds == ListUnder(gs[j], "devices")
                          IN  \A d \in 1..Len(ds) : HasKeys(ds[d], DeviceKeys)

IsText(node) == node.k = "str"

IsNumber(node) == node.k = "int" /\ node.v >= 0

IsList(node) == node.k = "seq"

DeviceShaped(d) ==
    /\ HasKeys(d, DeviceKeys)
    /\ IsText(d.v.name) /\ IsNumber(d.v.id) /\ IsText(d.v.type)
    /\ IsNumber(d.v.irq) /\ IsNumber(d.v.addr)

GuestShaped(g) ==
    /\ HasKeys(g, GuestKeys)
    /\ IsText(g.v.name) /\ IsNumber(g.v.id)
    /\ IsNumber(g.v.ram_addr) /\ IsNumber(g.v.ram_size)
    /\ IsText(g.v.shmem_path) /\ IsText(g.v.socket_path)
    /\ IsList(g.v.devices)
    /\ \A d \in 1..Len(g.v.devices.v) : DeviceShaped(g.v.devices.v[d])

FrontendShaped(f) ==
    /\ HasKeys(f, FrontendKeys)
    /\ IsText(f.v.name) /\ IsNumber(f.v.id)
    /\ IsList(f.v.guests)
    /\ \A j \in 1..Len(f.v.guests.v) : GuestShaped(f.v.guests.v[j])

\* the document is a mapping with a list of frontends, and every key the
\* schema names is there with a value of the schema's kind
WellShaped(doc) ==
    /\ HasKeys(doc, {"frontends"})
    /\ IsList(doc.v.frontends)
    /\ \A i \in 1..Len(doc.v.frontends.v) : FrontendShaped(doc.v.frontends.v[i])

SameDevice(t, d) ==
    /\ DOMAIN t = {"name", "id", "device_type", "irq", "addr"}
    /\ t["name"] = d.v.name.v /\ t["id"] = d.v.id.v
    /\ t["device_type"] = d.v.type.v
    /\ t["irq"] = d.v.irq.v /\ t["addr"] = d.v.addr.v

SameGuest(t, g) ==
    /\ DOMAIN t = GuestKeys
    /\ t["name"] = g.v.name.v /\ t["id"] = g.v.id.v
    /\ t["ram_addr"] = g.v.ram_addr.v /\ t["ram_size"] = g.v.ram_size.v
    /\ t["shmem_path"] = g.v.shmem_path.v
    /\ t["socket_path"] = g.v.socket_path.v
    /\ Len(t["devices"]) = Len(g.v.devices.v)
    /\ \A d \in 1..Len(g.v.devices.v) :
           SameDevice(t["devices"][d], g.v.devices.v[d])

SameFrontend(t, f) ==
    /\ DOMAIN t = FrontendKeys
    /\ t["name"] = f.v.name.v /\ t["id"] = f.v.id.v
    /\ Len(t["guests"]) = Len(f.v.guests.v)
    /\ \A j \in 1..Len(f.v.guests.v) : SameGuest(t["guests"][j], f.v.guests.v[j])

\* the tree has the counts, the order and the values of the document
SameTree(t, doc) ==
    /\ DOMAIN t = {"frontends"}
    /\ Len(t["frontends"]) = Len(doc.v.frontends.v)
    /\ \A i \in 1..Len(doc.v.frontends.v) :
           SameFrontend(t["frontends"][i], doc.v.frontends.v[i])

\* the load is over and the text of the file was handed to the deserializer
Deserialized == load_pc = "done" /\ file.exists /\ file.readable

SchemaFailure == outcome.kind = "panic" /\ outcome.at = 173

\* C8 (as stated, refuted): every failure of the load is an Err handed to
\* the caller: the load never ends in a panic, and when the file cannot be
\* opened, cannot be read, or does not match the schema, the caller gets
\* Err and no configuration.
C8_FailuresAreReturned ==
    load_pc = "done" =>
        /\ outcome.kind # "panic"
        /\ (~file.exists \/ ~file.readable \/ ~WellShaped(file.content))
               => outcome.kind = "Err"

RECURSIVE PackedOffsets(_, _)
PackedOffsets(fields, from) ==
    IF fields = <<>>
    THEN <<>>
    ELSE <<from>> \o PackedOffsets(Tail(fields), from + SizeOf(Head(fields).ty))

RECURSIVE PackedSize(_)
PackedSize(fields) ==
    IF fields = <<>> THEN 0 ELSE SizeOf(Head(fields).ty) + PackedSize(Tail(fields))

TypesOf(fields) == [i \in 1..Len(fields) |-> fields[i].ty]

\* C10: laid out in declaration order at natural alignment, the three
\* structures have no padding: BaoIoRequest is nine u64 fields and 72 bytes,
\* BaoIoEventFd is u32, u32, u64, u32, u32, u64 at offsets 0, 4, 8, 16, 20,
\* 24 and 32 bytes, BaoIrqFd is i32, u32 at offsets 0, 4 and 8 bytes.
C10_NoPadding ==
    size # -1 =>
        /\ offsets = PackedOffsets(FieldsOf(layout_of), 0)
        /\ size = PackedSize(FieldsOf(layout_of))
        /\ layout_of = "BaoIoRequest" =>
               /\ TypesOf(BaoIoRequest) = [i \in 1..9 |-> "u64"]
               /\ offsets = [i \in 1..9 |-> 8 * (i - 1)]
               /\ size = 72
        /\ layout_of = "BaoIoEventFd" =>
               /\ TypesOf(BaoIoEventFd) = <<"u32", "u32", "u64", "u32", "u32", "u64">>
               /\ offsets = <<0, 4, 8, 16, 20, 24>>
               /\ size = 32
        /\ layout_of = "BaoIrqFd" =>
               /\ TypesOf(BaoIrqFd) = <<"i32", "u32">>
               /\ offsets = <<0, 4>>
               /\ size = 8

\* C10 witness: BaoIoEventFd has been laid out to its end.
C10_Witness ==
    layout_of = "BaoIoEventFd" /\ Len(offsets) = 6 /\ size = 32


\* some argument read has a key of a lower ordinal than the key of an
\* argument read before it
OutOfOrder(as) ==
    \E i \in 1..Len(as) : \E j \in (i + 1)..Len(as) :
        /\ KeyWord(as[i]) # "" /\ KeyWord(as[j]) # ""
        /\ ParamKey[KeyWord(as[j])] < ParamKey[KeyWord(as[i])]

\* C11 (as stated, refuted): whenever some argument's key has a lower
\* ordinal than the key of an earlier argument, the parser returns failure.
C11_OutOfOrderFails ==
    (status # "loop" /\ OutOfOrder(args)) => status = "None"

\* C12: no run of the parser ends in an out-of-bounds access.  While the
\* loop runs, every argument read was inserted at an index (its key's
\* ordinal) that was at most the number of columns stored before it, and the
\* code after the loop can be run; the parser ends with success or failure
\* only, never in the panic of insert (utils.rs:130) or of matrix[i][j]
\* (utils.rs:55); rows are returned only from six columns that all have the
\* length of column 0.
C12_NoOutOfBounds ==
    /\ status \in {"loop", "None", "Some"}
    /\ at \notin {55, 130}
    /\ status = "loop" =>
           /\ Len(parameters) = Len(args)
           /\ \A i \in 1..Len(args) : ParamKey[KeyWord(args[i])] <= i - 1
           /\ ENABLED parse_end
    /\ status = "Some" =>
           /\ Len(parameters) = 6
           /\ \A c \in 1..6 : Len(parameters[c]) = Len(parameters[1])
           /\ ~TransposePanics(parameters)

\* C12 witness: a repeated key was inserted below the end of the columns,
\* six columns of which one is shorter were refused, and no rows came back.
C12_Witness ==
    /\ status = "None"
    /\ at = 147
    /\ Len(parameters) = 6
    /\ \E i \in 1..Len(args) : ParamKey[KeyWord(args[i])] < i - 1
    /\ \E c \in 2..6 : Len(parameters[c]) < Len(parameters[1])

====
